---- MODULE Spec2Model ----
(***************************************************************************)
(* A model of the Text2SQL application: the schema normalizer              *)
(* (flatten_schema_json), the embedding index (VectorStore), the           *)
(* generation client (LLM), the query page (main_query_ui) and the script   *)
(* runs of the page (main).                                                *)
(*                                                                         *)
(* Texts are sequences of one-character strings, so that strip, lower,     *)
(* startswith and replace are computed character by character as Python    *)
(* computes them.                                                          *)
(***************************************************************************)
EXTENDS Integers, Sequences, FiniteSets, TLC

VARIABLES
    pc,          \* position of the pure-function specifications: "start" | "done"
    ppIn,        \* _postprocess_sql: the text handed in (with its fence/tag/body parts)
    ppOut,       \* _postprocess_sql: the text returned
    schema_json, \* flatten_schema_json: the schema handed in
    flat,        \* flatten_schema_json: its outcome (raised, or the rows returned)
    provider,    \* LLM.provider
    response,    \* the backend's HTTP response: status and body
    genOut,      \* generate_sql: its outcome (raised, or the text returned)
    tableExists, \* the table schema_chunks exists in the vector database
    ivfIndex,    \* the index idx_schema_chunks_embedding exists
    records,     \* the rows of schema_chunks, in insertion order
    nextId,      \* the next value of the BIGSERIAL sequence of schema_chunks.id
    lastOp,      \* the last call on the store: its arguments and its outcome
    ui,          \* what the last run of main_query_ui did and showed
    widgets      \* the widgets of the page as the last script run saw them

vars ==
    << pc, ppIn, ppOut, schema_json, flat, provider, response, genOut,
       tableExists, ivfIndex, records, nextId, lastOp, ui, widgets >>

postVars == <<ppIn, ppOut>>

flatVars == <<schema_json, flat>>

llmVars == <<provider, response, genOut>>

storeVars == <<tableExists, ivfIndex, records, nextId, lastOp>>

\* the post-processing variables of a specification that does not use them
PostIdle ==
    /\ ppIn = [text |-> <<>>, fenced |-> FALSE, tag |-> <<>>, body |-> <<>>]
    /\ ppOut = <<>>

\* the flattening variables of a specification that does not use them
FlatIdle ==
    /\ schema_json = <<>>
    /\ flat = [raised |-> FALSE, rows |-> <<>>]

\* the generation variables of a specification that does not use them
LlmIdle ==
    /\ provider = "ollama"
    /\ response = [status |-> 0]
    /\ genOut = [raised |-> FALSE, sql |-> <<>>]

\* the store of a fresh vector database, before any call
StoreInit ==
    /\ tableExists = FALSE
    /\ ivfIndex = FALSE
    /\ records = <<>>
    /\ nextId = 1
    /\ lastOp = [op |-> "none", raised |-> FALSE]

\* the page with nothing on it
BlankPage ==
    [ generated |-> FALSE, sql |-> <<>>, shown |-> FALSE, code |-> <<>>,
      dispatched |-> FALSE, warning |-> FALSE, error |-> FALSE, raised |-> FALSE ]

\* the page before any run
UiIdle == ui = BlankPage

\* the slider's default value
top_k == 8

\* the widgets before any interaction: no file, no question, the slider at
\* its default, no button pressed
NoWidgets == [uploaded |-> <<>>, question |-> <<>>, top_k |-> top_k, trigger |-> "none"]

\* the widgets of a specification that does not run the script
WidgetsIdle == widgets = NoWidgets

-----------------------------------------------------------------------------
(* Bounds of the inputs.                                                   *)

\* longest free-form text handed to _postprocess_sql
MaxTextLen == 6

\* longest body of a fenced text handed to _postprocess_sql
MaxBodyLen == 3

\* most tables of a schema handed to flatten_schema_json
MaxTables == 2

\* most columns of one table
MaxCols == 2

\* the largest id the sequence of schema_chunks.id hands out
MaxId == 3

\* the largest k handed to search
MaxK == 2

\* most pieces (keywords, literals, separators) of a generated SQL text
MaxSqlPieces == 3

\* steps per unit of a serialized embedding component: one decimal digit
\* stands for the eight of the format '{x:.8f}'
PgvectorGrid == 10

-----------------------------------------------------------------------------
(* Python str operations on texts.                                         *)

\* every text over alphabet A of length at most n
TextsUpTo(A, n) == UNION {[1..m -> A] : m \in 0..n}

\* str.isspace for one character
IsSpace(c) == c \in {" ", "\t", "\n"}

\* str.lower for one character (the upper-case letters the inputs use)
LowerChar(c) ==
    CASE c = "S" -> "s"
      [] c = "Q" -> "q"
      [] c = "L" -> "l"
      [] c = "E" -> "e"
      [] c = "C" -> "c"
      [] c = "T" -> "t"
      [] c = "D" -> "d"
      [] c = "R" -> "r"
      [] c = "O" -> "o"
      [] c = "P" -> "p"
      [] OTHER -> c

\* str.lower
Lower(s) == [i \in 1..Len(s) |-> LowerChar(s[i])]

\* s[n:]
DropFirst(s, n) == IF n >= Len(s) THEN <<>> ELSE SubSeq(s, n + 1, Len(s))

\* str.startswith
StartsWith(s, p) == Len(s) >= Len(p) /\ SubSeq(s, 1, Len(p)) = p

RECURSIVE LStripSet(_, _)
\* str.lstrip(chars)
LStripSet(s, C) ==
    IF s # <<>> /\ Head(s) \in C THEN LStripSet(Tail(s), C) ELSE s

RECURSIVE RStripSet(_, _)
\* str.rstrip(chars)
RStripSet(s, C) ==
    IF s # <<>> /\ s[Len(s)] \in C THEN RStripSet(SubSeq(s, 1, Len(s) - 1), C) ELSE s

\* str.strip(chars)
StripSet(s, C) == RStripSet(LStripSet(s, C), C)

\* str.strip()
Strip(s) == StripSet(s, {" ", "\t", "\n"})

RECURSIVE Replace(_, _)
\* str.replace(p, ""): the non-overlapping occurrences of p, left to right
Replace(s, p) ==
    IF Len(s) < Len(p) THEN s
    ELSE IF StartsWith(s, p) THEN Replace(DropFirst(s, Len(p)), p)
    ELSE <<Head(s)>> \o Replace(Tail(s), p)

\* whether p occurs in s
Contains(s, p) == \E i \in 1..(Len(s) - Len(p) + 1) : SubSeq(s, i, i + Len(p) - 1) = p

\* the backtick character (a string of the module cannot hold the character itself)
BT == "<backtick>"

Fence == <<BT, BT, BT>>

SqlTag == <<"s", "q", "l">>

-----------------------------------------------------------------------------
(* LLM._postprocess_sql                                                    *)

\* the fence branch: the backticks stripped off both ends, then the sql tag cut off
FenceStrip(t) ==
    LET u == StripSet(t, {BT})
    IN  IF StartsWith(Lower(u), SqlTag) THEN DropFirst(u, 3) ELSE u

\* the last line of _postprocess_sql with the final strip left out
StrayFencesNoStrip(t) == Replace(Replace(t, Fence \o SqlTag), Fence)

\* the stray fences replaced by nothing, then strip()
StrayFences(t) == Strip(Replace(Replace(t, Fence \o SqlTag), Fence))

PostprocessSql(text) ==
    IF text = <<>> THEN <<>>
    ELSE LET t == Strip(text)
             u == IF StartsWith(t, Fence) THEN FenceStrip(t) ELSE t
         IN  StrayFences(u)

-----------------------------------------------------------------------------
(* flatten_schema_json.  A table and a column are Python dicts: functions  *)
(* whose domain is the set of keys present.  A chunk text is the sequence  *)
(* of the pieces its f-string joins.                                       *)

\* Python None
None == "<None>"

\* dict.get(key, default)
Get(d, key, default) == IF key \in DOMAIN d THEN d[key] ELSE default

\* str(v) as an f-string renders it
PyStr(v) == IF v = None THEN "None" ELSE v

RECURSIVE JoinNames(_)
\* ", ".join(c["column_name"] for c in columns)
JoinNames(cols) ==
    IF cols = <<>> THEN <<>>
    ELSE IF Len(cols) = 1 THEN <<cols[1]["column_name"]>>
    ELSE <<cols[1]["column_name"], ", ">> \o JoinNames(Tail(cols))

\* table.get("columns", [])
ColumnsOf(table) == Get(table, "columns", <<>>)

\* f"{schema}.{table_name}"
SourceOf(table) ==
    <<Get(table, "table_schema", "public"), ".", PyStr(Get(table, "table_name", None))>>

\* the table summary row of one table
TableRow(table) ==
    << [ source   |-> SourceOf(table),
         chunk    |-> <<"Table ">> \o SourceOf(table) \o <<". Columns: ">>
                          \o JoinNames(ColumnsOf(table)),
         metadata |-> [ kind   |-> "table",
                        schema |-> Get(table, "table_schema", "public"),
                        table  |-> Get(table, "table_name", None) ] ] >>

\* the row of one column
ColumnRow(table, col) ==
    [ source   |-> SourceOf(table),
      chunk    |-> <<"Column ">> \o SourceOf(table)
                      \o << ".", col["column_name"], " type ", col["data_type"],
                            " nullable=", PyStr(Get(col, "is_nullable", None)),
                            " default=", PyStr(Get(col, "column_default", None)),
                            " desc=", PyStr(Get(col, "description", None)) >>,
      metadata |-> [ kind   |-> "column",
                     schema |-> Get(table, "table_schema", "public"),
                     table  |-> Get(table, "table_name", None),
                     column |-> Get(col, "column_name", None) ] ]

\* the column rows of one table in reverse column order
ColumnRowsReversed(table) ==
    LET cols == ColumnsOf(table)
    IN  [i \in 1..Len(cols) |-> ColumnRow(table, cols[Len(cols) + 1 - i])]

\* the column rows of one table, in column order
ColumnRows(table) ==
    LET cols == ColumnsOf(table)
    IN  [i \in 1..Len(cols) |-> ColumnRow(table, cols[i])]

\* a subscript col['column_name'] or col['data_type'] raises KeyError
TableRaises(table) ==
    \E i \in 1..Len(ColumnsOf(table)) :
        \/ "column_name" \notin DOMAIN ColumnsOf(table)[i]
        \/ "data_type" \notin DOMAIN ColumnsOf(table)[i]

RECURSIVE FlattenRows(_)
\* the loop over the tables: per table its summary row, then its column rows
FlattenRows(tables) ==
    IF tables = <<>> THEN <<>>
    ELSE TableRow(Head(tables)) \o ColumnRows(Head(tables)) \o FlattenRows(Tail(tables))

\* flatten_schema_json: the rows returned, or raised (and then no rows at all)
FlattenSchemaJson(schema) ==
    IF \E i \in 1..Len(schema) : TableRaises(schema[i])
    THEN [raised |-> TRUE, rows |-> <<>>]
    ELSE [raised |-> FALSE, rows |-> FlattenRows(schema)]

-----------------------------------------------------------------------------
(* Inputs of flatten_schema_json.                                          *)

\* a column with every field, and one with the required fields only
ColId ==
    [ column_name |-> "id", data_type |-> "integer", is_nullable |-> "NO",
      column_default |-> "nextval", description |-> "key" ]

ColName == [column_name |-> "name", data_type |-> "text"]

\* malformed columns: no column_name, no data_type
ColNoName == [data_type |-> "text"]

ColNoType == [column_name |-> "id"]

\* every sequence over S of length at most n
SeqsUpTo(S, n) == UNION {[1..m -> S] : m \in 0..n}

\* the tables built from the columns C: with and without table_name, columns
\* and table_schema
TablesOver(C, n) ==
    LET lists == SeqsUpTo(C, n)
    IN  { [table_name |-> "users", columns |-> l] : l \in lists }
        \cup { [table_schema |-> "sales", table_name |-> "orders", columns |-> l] :
                  l \in lists }
        \cup { [columns |-> l] : l \in lists }
        \cup { [table_name |-> "users"], [table_schema |-> "sales", table_name |-> "orders"] }

FlattenInputs == SeqsUpTo(TablesOver({ColId, ColName}, MaxCols), MaxTables)

\* every required field is present: table_name, columns, column_name, data_type
ValidSchema(schema) ==
    \A i \in 1..Len(schema) :
        /\ "table_name" \in DOMAIN schema[i]
        /\ "columns" \in DOMAIN schema[i]
        /\ \A j \in 1..Len(schema[i]["columns"]) :
              /\ "column_name" \in DOMAIN schema[i]["columns"][j]
              /\ "data_type" \in DOMAIN schema[i]["columns"][j]

FlattenInit ==
    /\ pc = "start"
    /\ schema_json \in FlattenInputs
    /\ flat = [raised |-> FALSE, rows |-> <<>>]
    /\ PostIdle
    /\ LlmIdle
    /\ StoreInit
    /\ UiIdle
    /\ WidgetsIdle

\* one call of flatten_schema_json
Flatten ==
    /\ pc = "start"
    /\ flat' = FlattenSchemaJson(schema_json)
    /\ pc' = "done"
    /\ UNCHANGED <<schema_json, postVars, llmVars, storeVars, ui, widgets>>

SpecFlatten == FlattenInit /\ [][Flatten]_vars

-----------------------------------------------------------------------------
(* Claims about flatten_schema_json, under SpecFlatten.                    *)

RECURSIVE ChunksBefore(_, _)
\* the number of chunks the tables before the i-th account for
ChunksBefore(schema, i) ==
    IF i <= 1 THEN 0
    ELSE ChunksBefore(schema, i - 1) + 1 + Len(schema[i - 1]["columns"])

\* C3: for every valid schema, flatten_schema_json returns, per table in input
\* order, one table chunk immediately followed by one column chunk per column
\* in column order (number of tables + number of columns chunks overall); a
\* table without columns still yields its table chunk; no chunk text is empty.
C3_FlattenShape ==
    (pc = "done" /\ ValidSchema(schema_json)) =>
        /\ ~flat.raised
        /\ Len(flat.rows) = ChunksBefore(schema_json, Len(schema_json) + 1)
        /\ \A i \in 1..Len(schema_json) :
              LET at == ChunksBefore(schema_json, i) + 1
                  cols == schema_json[i]["columns"]
              IN  /\ flat.rows[at].metadata.kind = "table"
                  /\ flat.rows[at].metadata.table = schema_json[i]["table_name"]
                  /\ \A j \in 1..Len(cols) :
                        /\ flat.rows[at + j].metadata.kind = "column"
                        /\ flat.rows[at + j].metadata.table = schema_json[i]["table_name"]
                        /\ flat.rows[at + j].metadata.column = cols[j]["column_name"]
        /\ \A r \in 1..Len(flat.rows) : flat.rows[r].chunk # <<>>

\* C3 witness: two tables were flattened, the first without columns and the
\* second with two different columns.
C3_Witness ==
    /\ pc = "done"
    /\ ValidSchema(schema_json)
    /\ Len(schema_json) = 2
    /\ schema_json[1]["columns"] = <<>>
    /\ Len(schema_json[2]["columns"]) = 2
    /\ schema_json[2]["columns"][1] # schema_json[2]["columns"][2]
    /\ Len(flat.rows) = 4

-----------------------------------------------------------------------------
(* The generation backends.  A JSON value is a tagged record; a dict is a   *)
(* function from its keys.                                                 *)

JNull == [t |-> "null"]

JStr(s) == [t |-> "str", s |-> s]

JInt(n) == [t |-> "int", n |-> n]

JList(xs) == [t |-> "list", xs |-> xs]

JDict(kv) == [t |-> "dict", kv |-> kv]

\* {}
NoKeys == [k \in {} |-> JNull]

\* {key: value}
JDict1(key, value) == JDict(key :> value)

\* Python truthiness: bool(j) is False
Falsy(j) ==
    \/ j.t = "null"
    \/ j.t = "str" /\ j.s = <<>>
    \/ j.t = "int" /\ j.n = 0
    \/ j.t = "list" /\ j.xs = <<>>
    \/ j.t = "dict" /\ DOMAIN j.kv = {}

\* a or b
PyOr(a, b) == IF Falsy(a) THEN b ELSE a

\* the keys a payload may hold, in the order str() prints them
KeyOrder == <<"response", "choices", "message", "content", "generated_text", "summary_text", "error">>

RECURSIVE Repr(_)
RECURSIVE ReprItems(_)
RECURSIVE ReprPairs(_, _)
\* str(data): Python's rendering of a value (a key and a number are one piece)
Repr(j) ==
    CASE j.t = "null" -> <<"N", "o", "n", "e">>
      [] j.t = "str"  -> <<"'">> \o j.s \o <<"'">>
      [] j.t = "int"  -> <<ToString(j.n)>>
      [] j.t = "list" -> <<"[">> \o ReprItems(j.xs) \o <<"]">>
      [] j.t = "dict" -> <<"{">> \o ReprPairs(j.kv, KeyOrder) \o <<"}">>

ReprItems(xs) ==
    IF xs = <<>> THEN <<>>
    ELSE IF Len(xs) = 1 THEN Repr(xs[1])
    ELSE Repr(xs[1]) \o <<",", " ">> \o ReprItems(Tail(xs))

ReprPairs(kv, keys) ==
    IF keys = <<>> THEN <<>>
    ELSE IF Head(keys) \notin DOMAIN kv THEN ReprPairs(kv, Tail(keys))
    ELSE LET rest == ReprPairs(kv, Tail(keys))
         IN  <<"'", Head(keys), "'", ":", " ">> \o Repr(kv[Head(keys)])
                 \o (IF rest = <<>> THEN <<>> ELSE <<",", " ">> \o rest)

\* an outcome of a call: it raised, or it returned the text sql
Raised == [raised |-> TRUE, sql |-> <<>>]

Returned(text) == [raised |-> FALSE, sql |-> text]

\* _postprocess_sql on whatever value was extracted: a falsy value gives '',
\* a value that is no str has no strip() and raises, a str is post-processed
PostprocessValue(v) ==
    IF Falsy(v) THEN Returned(<<>>)
    ELSE IF v.t # "str" THEN Raised
    ELSE Returned(PostprocessSql(v.s))

\* resp.raise_for_status(): raises for a 4xx or 5xx status
RaiseForStatus(status) == status >= 400 /\ status < 600

\* d.get(key, default) of a JSON dict
JGet(d, key, default) == IF key \in DOMAIN d.kv THEN d.kv[key] ELSE default

\* data.get("response", "") and the post-processing, data = resp.json()
FromOllama(data) ==
    IF data.t # "dict" THEN Raised
    ELSE PostprocessValue(JGet(data, "response", JStr(<<>>)))

\* data.get("choices", [{}])[0].get("message", {}).get("content", "")
FromGroq(data) ==
    IF data.t # "dict" THEN Raised
    ELSE LET choices == JGet(data, "choices", JList(<<JDict(NoKeys)>>))
         IN  IF choices.t # "list" \/ choices.xs = <<>> THEN Raised
             ELSE IF choices.xs[1].t # "dict" THEN Raised
             ELSE LET message == JGet(choices.xs[1], "message", JDict(NoKeys))
                  IN  IF message.t # "dict" THEN Raised
                      ELSE PostprocessValue(JGet(message, "content", JStr(<<>>)))

\* the Hugging Face branches: a non-empty list of dicts, a dict, anything else
FromHf(data) ==
    IF data.t = "list" /\ data.xs # <<>> THEN
        IF data.xs[1].t # "dict" THEN Raised
        ELSE LET text == PyOr(JGet(data.xs[1], "generated_text", JStr(<<>>)),
                              PyOr(JGet(data.xs[1], "summary_text", JStr(<<>>)), JStr(<<>>)))
             IN  IF Falsy(text) /\ "generated_text" \notin DOMAIN data.xs[1].kv
                 THEN PostprocessValue(JStr(Repr(data)))
                 ELSE PostprocessValue(text)
    ELSE IF data.t = "dict" THEN PostprocessValue(JGet(data, "generated_text", JStr(<<>>)))
    ELSE PostprocessValue(JStr(<<>>))

\* generate_sql: the dispatch on the provider, the status check, resp.json()
GenerateSql(prov, resp) ==
    IF RaiseForStatus(resp.status) THEN Raised
    ELSE IF ~resp.json THEN Raised
    ELSE IF prov = "groq" THEN FromGroq(resp.body)
    ELSE IF prov = "hf" THEN FromHf(resp.body)
    ELSE FromOllama(resp.body)

-----------------------------------------------------------------------------
(* Inputs of generate_sql.                                                 *)

Providers == {"ollama", "groq", "hf"}

\* HTTP statuses: success, client error, server error
Statuses == {200, 404, 503}

SelectOne == <<"S", "E", "L", "E", "C", "T", " ", "1">>

\* what a response field may hold
FieldValues ==
    { JNull, JStr(<<>>), JStr(SelectOne), JStr(Fence \o SqlTag \o <<"\n">> \o SelectOne \o Fence),
      JInt(0), JInt(5), JList(<<>>), JList(<<JStr(SelectOne)>>), JDict(NoKeys) }

ErrorBody == JDict1("error", JStr(<<"b", "u", "s", "y">>))

\* response bodies that are JSON
JsonBodies ==
    { JNull, JStr(SelectOne), JInt(5), JList(<<>>), JDict(NoKeys), ErrorBody,
      JList(<<ErrorBody>>), JList(<<JStr(SelectOne)>>) }
    \cup { JDict1("response", v) : v \in FieldValues }
    \cup { JDict1("choices", c) :
             c \in { JNull, JList(<<>>), JList(<<JDict(NoKeys)>>), JList(<<JNull>>),
                     JList(<<JDict1("message", JNull)>>) } }
    \cup { JDict1("choices", JList(<<JDict1("message", JDict1("content", v))>>)) :
             v \in FieldValues }
    \cup { JDict1("generated_text", v) : v \in FieldValues }
    \cup { JList(<<JDict1("generated_text", v)>>) : v \in FieldValues }
    \cup { JList(<<JDict1("summary_text", v)>>) : v \in FieldValues }

Responses ==
    { [status |-> st, json |-> TRUE, body |-> b] : st \in Statuses, b \in JsonBodies }
    \cup { [status |-> st, json |-> FALSE, body |-> JNull] : st \in Statuses }

LlmInit ==
    /\ pc = "start"
    /\ provider \in Providers
    /\ response \in Responses
    /\ genOut = [raised |-> FALSE, sql |-> <<>>]
    /\ PostIdle
    /\ FlatIdle
    /\ StoreInit
    /\ UiIdle
    /\ WidgetsIdle

\* one call of generate_sql
Generate ==
    /\ pc = "start"
    /\ genOut' = GenerateSql(provider, response)
    /\ pc' = "done"
    /\ UNCHANGED <<provider, response, postVars, flatVars, storeVars, ui, widgets>>

SpecLLM == LlmInit /\ [][Generate]_vars

-----------------------------------------------------------------------------
(* Claims about generate_sql, under SpecLLM.                               *)

\* the provider's response field is present and holds a string
HasTextField(prov, data) ==
    CASE prov = "ollama" ->
           data.t = "dict" /\ "response" \in DOMAIN data.kv /\ data.kv["response"].t = "str"
      [] prov = "groq" ->
           /\ data.t = "dict" /\ "choices" \in DOMAIN data.kv
           /\ data.kv["choices"].t = "list" /\ data.kv["choices"].xs # <<>>
           /\ LET c == data.kv["choices"].xs[1]
              IN  /\ c.t = "dict" /\ "message" \in DOMAIN c.kv
                  /\ c.kv["message"].t = "dict"
                  /\ "content" \in DOMAIN c.kv["message"].kv
                  /\ c.kv["message"].kv["content"].t = "str"
      [] prov = "hf" ->
           LET d == IF data.t = "list" /\ data.xs # <<>> THEN data.xs[1] ELSE data
           IN  /\ d.t = "dict"
               /\ \E key \in {"generated_text", "summary_text"} :
                     key \in DOMAIN d.kv /\ d.kv[key].t = "str"

\* a success response: a 2xx status and a JSON payload with the text field
SuccessResponse(prov, resp) ==
    /\ resp.status >= 200 /\ resp.status < 300
    /\ resp.json
    /\ HasTextField(prov, resp.body)

\* C2: for every provider, a non-success response (a non-2xx status, or a
\* payload whose response field is missing or wrongly typed) makes
\* generate_sql raise; it never returns a text in place of generated SQL.
C2_NonSuccessRaises ==
    (pc = "done" /\ ~SuccessResponse(provider, response)) => genOut.raised

-----------------------------------------------------------------------------
(* The embedding index (VectorStore).  An embedding is a vector of         *)
(* integers: model.encode gives components in hundredths, _to_pgvector     *)
(* rounds them to PgvectorGrid steps per unit.                             *)

\* the pieces of a text
Pieces(text) == {text[i] : i \in DOMAIN text}

\* self.model.encode(text, normalize_embeddings=True): a fixed function of the
\* text, of unit length, in hundredths. Like the model (uncased, truncating
\* long inputs) it is not injective: different texts may share one vector.
Encode(text) ==
    IF "name" \in Pieces(text) THEN <<60, 80>>
    ELSE IF "id" \in Pieces(text) THEN <<80, 60>>
    ELSE <<100, 0>>

\* _to_pgvector: every component formatted with a fixed number of digits
\* (rounded to the nearest step), which the store parses back
ToPgvector(embedding) ==
    [i \in DOMAIN embedding |-> (2 * embedding[i] * PgvectorGrid + 100) \div 200]

RECURSIVE SumTo(_, _, _)
SumTo(a, b, n) == IF n = 0 THEN 0 ELSE a[n] * b[n] + SumTo(a, b, n - 1)

\* the inner product
Dot(a, b) == SumTo(a, b, Len(a))

\* a <-> b, squared: the Euclidean distance ORDER BY sorts on
L2Sq(a, b) == Dot(a, a) - 2 * Dot(a, b) + Dot(b, b)

\* 1 - (a <=> b): the cosine similarity num / sqrt(den2), kept as the pair
CosineScore(a, b) == [num |-> Dot(a, b), den2 |-> Dot(a, a) * Dot(b, b)]

\* s >= t for two scores (no component of an embedding is negative)
ScoreGeq(s, t) == s.num * s.num * t.den2 >= t.num * t.num * s.den2

Min(a, b) == IF a < b THEN a ELSE b

\* the SELECT of search: the row numbers of the LIMIT k rows first in
\* ORDER BY embedding <-> q.  The statement names no second sort key, so rows
\* at the same distance come in whatever order the executor produces.
TopK(recs, q, k) ==
    LET n == Len(recs)
        m == Min(k, n)
        d == [i \in 1..n |-> L2Sq(recs[i].embedding, q)]
    IN  { ord \in [1..m -> 1..n] :
            /\ \A i, j \in 1..m : i < j => ord[i] # ord[j] /\ d[ord[i]] <= d[ord[j]]
            /\ \A r \in 1..n : (\A j \in 1..m : ord[j] # r) => d[ord[m]] <= d[r] }

\* the list search returns for one order of the rows; rid is the id of the
\* row a hit was read from (the SELECT does not return it)
Hits(recs, q, ord) ==
    [ i \in 1..Len(ord) |->
        [ source   |-> recs[ord[i]].source,
          chunk    |-> recs[ord[i]].chunk,
          metadata |-> recs[ord[i]].metadata,
          score    |-> CosineScore(recs[ord[i]].embedding, q),
          rid      |-> recs[ord[i]].id ] ]

\* VectorStore.search: the SELECT raises when schema_chunks does not exist
SearchOutcomes(exists, recs, query, k) ==
    IF ~exists THEN {[raised |-> TRUE, hits |-> <<>>]}
    ELSE LET q == ToPgvector(Encode(query))
         IN  {[raised |-> FALSE, hits |-> Hits(recs, q, ord)] : ord \in TopK(recs, q, k)}

\* VectorStore.setup raises: the failed CREATE INDEX ... USING ivfflat is
\* caught, but it has aborted the transaction, so the next execute raises
\* (InFailedSqlTransaction) out of the with block, which rolls back
SetupRaises(ivfFails) == ivfFails

\* schema_chunks exists after setup()
TableAfterSetup(ivfFails) == IF SetupRaises(ivfFails) THEN tableExists ELSE TRUE

\* idx_schema_chunks_embedding exists after setup()
IndexAfterSetup(ivfFails) == IF SetupRaises(ivfFails) THEN ivfIndex ELSE TRUE

\* an upsert that replaces the stored rows by the new ones
InsertedReplacing(recs, rows, first) ==
    [ i \in 1..Len(rows) |->
        [ id |-> first + i - 1, source |-> rows[i].source, chunk |-> rows[i].chunk,
          metadata |-> rows[i].metadata,
          embedding |-> ToPgvector(Encode(rows[i].chunk)) ] ]

\* the table after the INSERT of upsert_chunks: one new row per chunk, in
\* order, with the next ids of the sequence
Inserted(recs, rows, first) ==
    recs \o [ i \in 1..Len(rows) |->
                [ id |-> first + i - 1, source |-> rows[i].source, chunk |-> rows[i].chunk,
                  metadata |-> rows[i].metadata,
                  embedding |-> ToPgvector(Encode(rows[i].chunk)) ] ]

-----------------------------------------------------------------------------
(* Inputs of the store.                                                    *)

\* the tables handed to the ingest flow: well-formed ones, and one for each
\* required field that may be missing (table_name, columns, column_name,
\* data_type)
IngestTables ==
    { [table_name |-> "users", columns |-> <<>>],
      [table_name |-> "users", columns |-> <<ColName>>],
      [columns |-> <<>>],
      [table_name |-> "users"],
      [table_name |-> "users", columns |-> <<ColNoName>>],
      [table_name |-> "users", columns |-> <<ColName, ColNoType>>] }

\* schemas handed to the ingest flow: no table, or one table
IngestInputs == SeqsUpTo(IngestTables, 1)

\* row lists handed to upsert_chunks: none, or the rows of one table
UpsertInputs ==
    { FlattenSchemaJson(sch).rows : sch \in {x \in IngestInputs : ValidSchema(x)} }

Queries == { <<"what is the user's ", "name">>, <<"list the ", "users">> }

-----------------------------------------------------------------------------
(* The calls on the store.                                                 *)

\* the variables no call on the store touches
notStore == <<pc, postVars, flatVars, llmVars, ui, widgets>>

\* VectorStore.setup()
Setup(ivfFails) ==
    /\ ivfFails => ~ivfIndex
    /\ tableExists' = TableAfterSetup(ivfFails)
    /\ ivfIndex' = IndexAfterSetup(ivfFails)
    /\ lastOp' = [op |-> "setup", raised |-> SetupRaises(ivfFails), ivfFailed |-> ivfFails]
    /\ UNCHANGED <<records, nextId, notStore>>

\* the rows after TRUNCATE schema_chunks
Cleared(recs) == <<>>

\* VectorStore.clear(): TRUNCATE raises when schema_chunks does not exist; the
\* sequence of ids is not restarted
Clear ==
    /\ records' = IF tableExists THEN Cleared(records) ELSE records
    /\ lastOp' = [op |-> "clear", raised |-> ~tableExists]
    /\ UNCHANGED <<tableExists, ivfIndex, nextId, notStore>>

\* VectorStore.upsert_chunks(rows)
UpsertChunks(rows) ==
    /\ nextId + Len(rows) - 1 <= MaxId
    /\ IF rows = <<>> THEN
            /\ lastOp' = [ op |-> "upsert", raised |-> FALSE, rows |-> rows,
                           connected |-> FALSE, value |-> 0 ]
            /\ UNCHANGED <<records, nextId>>
       ELSE IF ~tableExists THEN
            /\ lastOp' = [ op |-> "upsert", raised |-> TRUE, rows |-> rows,
                           connected |-> TRUE, value |-> 0 ]
            /\ UNCHANGED <<records, nextId>>
       ELSE /\ records' = Inserted(records, rows, nextId)
            /\ nextId' = nextId + Len(rows)
            /\ lastOp' = [ op |-> "upsert", raised |-> FALSE, rows |-> rows,
                           connected |-> TRUE, value |-> Len(rows) ]
    /\ UNCHANGED <<tableExists, ivfIndex, notStore>>

\* VectorStore.search(query, k)
Search(query, k) ==
    /\ \E out \in SearchOutcomes(tableExists, records, query, k) :
          lastOp' = [ op |-> "search", raised |-> out.raised, query |-> query,
                      k |-> k, hits |-> out.hits ]
    /\ UNCHANGED <<tableExists, ivfIndex, records, nextId, notStore>>

\* the ingest flow of sidebar_ingest_ui: flatten_schema_json, setup,
\* upsert_chunks; an exception ends the flow where it is raised
Ingest(schema, ivfFails) ==
    LET fl == FlattenSchemaJson(schema)
        setupRaised == ~fl.raised /\ SetupRaises(ivfFails)
        inserts == ~fl.raised /\ ~setupRaised /\ fl.rows # <<>>
    IN  /\ ivfFails => ~ivfIndex
        /\ nextId + Len(fl.rows) - 1 <= MaxId
        /\ tableExists' = IF fl.raised THEN tableExists ELSE TableAfterSetup(ivfFails)
        /\ ivfIndex' = IF fl.raised THEN ivfIndex ELSE IndexAfterSetup(ivfFails)
        /\ records' = IF inserts THEN Inserted(records, fl.rows, nextId) ELSE records
        /\ nextId' = IF inserts THEN nextId + Len(fl.rows) ELSE nextId
        /\ lastOp' = [ op |-> "ingest", raised |-> fl.raised \/ setupRaised,
                       malformed |-> ~ValidSchema(schema), rows |-> fl.rows,
                       value |-> IF inserts THEN Len(fl.rows) ELSE 0 ]
        /\ UNCHANGED notStore

Init ==
    /\ pc = "idle"
    /\ StoreInit
    /\ PostIdle
    /\ FlatIdle
    /\ LlmIdle
    /\ UiIdle
    /\ WidgetsIdle

Next ==
    \/ \E f \in BOOLEAN : Setup(f)
    \/ Clear
    \/ \E rows \in UpsertInputs : UpsertChunks(rows)
    \/ \E q \in Queries, k \in 1..MaxK : Search(q, k)
    \/ \E sch \in IngestInputs, f \in BOOLEAN : Ingest(sch, f)

Spec == Init /\ [][Next]_vars

-----------------------------------------------------------------------------
(* Claims about the store, under Spec.                                     *)

\* C4: a malformed schema (a table or column record without table_name,
\* columns, column_name or data_type) makes the ingest flow fail before any
\* record is written: the flow raises and the store holds the records it held.
C4_MalformedIngestWritesNothing ==
    [][ (lastOp'.op = "ingest" /\ lastOp'.malformed)
            => (lastOp'.raised /\ records' = records) ]_vars

\* C5 as stated: whenever the store holds no records, search returns an empty
\* list and raises no error.
C5_NoRecordsSearchEmpty ==
    (lastOp.op = "search" /\ records = <<>>) => (~lastOp.raised /\ lastOp.hits = <<>>)

\* C5, the part that holds: whenever the table schema_chunks exists (a setup()
\* has succeeded) and holds no records, search returns an empty list and
\* raises no error, for every query and every k > 0.
C5_EmptyTableSearchEmpty ==
    (lastOp.op = "search" /\ tableExists /\ records = <<>>)
        => (~lastOp.raised /\ lastOp.hits = <<>>)

\* the ids of the stored rows increase strictly
IdsIncrease(recs) == \A i \in 1..(Len(recs) - 1) : recs[i].id < recs[i + 1].id

\* what one call may do to the stored rows
C6_Step ==
    /\ lastOp'.op \in {"setup", "search"} => records' = records
    /\ lastOp'.op = "clear" => records' = <<>>
    /\ lastOp'.op \in {"upsert", "ingest"} =>
          IF lastOp'.raised THEN records' = records
          ELSE /\ Len(records') = Len(records) + lastOp'.value
               /\ SubSeq(records', 1, Len(records)) = records
               /\ lastOp'.value \in {0, Len(lastOp'.rows)}
               /\ \A i \in 1..lastOp'.value :
                     /\ records'[Len(records) + i].source = lastOp'.rows[i].source
                     /\ records'[Len(records) + i].chunk = lastOp'.rows[i].chunk
                     /\ records'[Len(records) + i].metadata = lastOp'.rows[i].metadata
    /\ lastOp'.op = "upsert" =>
          /\ ~lastOp'.raised => lastOp'.value = Len(lastOp'.rows)
          /\ lastOp'.rows = <<>> =>
                /\ ~lastOp'.raised /\ ~lastOp'.connected /\ lastOp'.value = 0
                /\ UNCHANGED <<tableExists, ivfIndex, records, nextId>>
    /\ IdsIncrease(records')

\* C6: the stored records are the chunks of the upsert_chunks calls since the
\* last clear: a call that returns appends one record per chunk, in order,
\* with strictly increasing ids, and returns their number; stored records are
\* never modified; setup and search leave them unchanged; clear removes them;
\* upsert_chunks([]) returns 0 without connecting and changes nothing.
C6_RecordsLifecycle == [][C6_Step]_vars

\* C6 witness: after a clear, a second upsert_chunks call appended to the
\* records of the first.
C6_Witness ==
    /\ lastOp.op = "upsert"
    /\ ~lastOp.raised
    /\ lastOp.value > 0
    /\ Len(records) > lastOp.value
    /\ records[1].id > 1

\* C7: search returns min(k, number of records) hits in non-increasing order
\* of the reported score, and two hits of equal score come in ascending order
\* of insertion id.
C7_SearchOrder ==
    (lastOp.op = "search" /\ ~lastOp.raised) =>
        /\ Len(lastOp.hits) = Min(lastOp.k, Len(records))
        /\ \A i, j \in 1..Len(lastOp.hits) :
              i < j =>
                /\ ScoreGeq(lastOp.hits[i].score, lastOp.hits[j].score)
                /\ ScoreGeq(lastOp.hits[j].score, lastOp.hits[i].score)
                      => lastOp.hits[i].rid < lastOp.hits[j].rid

\* C10: setup() never fails, also when the CREATE INDEX ... USING ivfflat
\* statement fails: it returns without error with schema_chunks committed.
C10_SetupAlwaysSucceeds ==
    lastOp.op = "setup" => (~lastOp.raised /\ tableExists)

-----------------------------------------------------------------------------
(* The query page: main_query_ui.                                          *)

KwSelect == <<"S", "E", "L", "E", "C", "T">>

\* "select"
SelectPrefix == Lower(KwSelect)

\* the pieces a generated text is made of: blanks, a query in either case,
\* a statement separator and a statement that is not a query
SqlPieces ==
    { <<" ">>, KwSelect \o <<" ", "1">>, SelectPrefix \o <<" ", "1">>, <<";">>,
      <<"D", "R", "O", "P", " ", "t">> }

RECURSIVE Concat(_)
\* the pieces joined
Concat(ps) == IF ps = <<>> THEN <<>> ELSE Head(ps) \o Concat(Tail(ps))

\* the raw texts a backend may answer with
RawSqlTexts == {Concat(ps) : ps \in SeqsUpTo(SqlPieces, MaxSqlPieces)}

\* what llm.generate_sql may do: raise, or return a post-processed text
GenOutcomes == {Raised} \cup {Returned(PostprocessSql(raw)) : raw \in RawSqlTexts}

\* the gate: sql.strip().lower().startswith("select")
GateOpen(sql) == StartsWith(Lower(Strip(sql)), SelectPrefix)

\* one run of main_query_ui: the button and the question, then setup, search,
\* generate_sql, st.code, the gate, and db.run_query inside try/except
QueryRun(run, question, ivfFails, gen, dbFails) ==
    /\ ivfFails => ~ivfIndex
    /\ IF ~(run /\ question # <<>>) THEN
            /\ ui' = BlankPage
            /\ UNCHANGED storeVars
       ELSE IF SetupRaises(ivfFails) THEN
            /\ ui' = [BlankPage EXCEPT !.raised = TRUE]
            /\ lastOp' = [op |-> "setup", raised |-> TRUE, ivfFailed |-> ivfFails]
            /\ UNCHANGED <<tableExists, ivfIndex, records, nextId>>
       ELSE /\ tableExists' = TableAfterSetup(ivfFails)
            /\ ivfIndex' = IndexAfterSetup(ivfFails)
            /\ \E out \in SearchOutcomes(TableAfterSetup(ivfFails), records, question, top_k) :
                  /\ lastOp' = [ op |-> "search", raised |-> out.raised,
                                 query |-> question, k |-> top_k, hits |-> out.hits ]
                  /\ ui' =
                       IF out.raised \/ gen.raised THEN [BlankPage EXCEPT !.raised = TRUE]
                       ELSE [ generated  |-> TRUE,
                              sql        |-> gen.sql,
                              shown      |-> TRUE,
                              code       |-> gen.sql,
                              dispatched |-> GateOpen(gen.sql),
                              warning    |-> ~GateOpen(gen.sql),
                              error      |-> GateOpen(gen.sql) /\ dbFails,
                              raised     |-> FALSE ]
            /\ UNCHANGED <<records, nextId>>
    /\ UNCHANGED <<pc, postVars, flatVars, llmVars, widgets>>

GateInit ==
    /\ pc = "idle"
    /\ StoreInit
    /\ UiIdle
    /\ WidgetsIdle
    /\ PostIdle
    /\ FlatIdle
    /\ LlmIdle

GateNext ==
    \E run \in BOOLEAN, question \in Queries \cup {<<>>}, ivfFails \in BOOLEAN,
       gen \in GenOutcomes, dbFails \in BOOLEAN :
        QueryRun(run, question, ivfFails, gen, dbFails)

SpecGate == GateInit /\ [][GateNext]_vars

-----------------------------------------------------------------------------
(* Claims about main_query_ui, under SpecGate.                             *)

\* a single SELECT-leading statement: the trimmed text starts with select (in
\* any case) and no statement follows a semicolon
SingleSelect(sql) ==
    LET t == Lower(Strip(sql))
        core == RStripSet(t, {";", " ", "\t", "\n"})
    IN  /\ StartsWith(t, SelectPrefix)
        /\ \A i \in 1..Len(core) : core[i] # ";"

\* C1: a generated text that is not a single SELECT-leading statement is
\* never dispatched to run_query; no exception is raised and the text is
\* still shown.
C1_OnlySingleSelectDispatched ==
    (ui.generated /\ ~SingleSelect(ui.sql)) =>
        /\ ~ui.dispatched
        /\ ~ui.raised
        /\ ui.shown /\ ui.code = ui.sql

-----------------------------------------------------------------------------
(* The script: main() is executed from top to bottom on every interaction  *)
(* with a widget; an exception ends the run where it is raised.            *)

\* the store as a run finds it
StoreNow ==
    [ tableExists |-> tableExists, ivfIndex |-> ivfIndex, records |-> records,
      nextId |-> nextId, raised |-> FALSE ]

\* vs.clear() within a run
ClearStep(st) ==
    IF st.raised THEN st
    ELSE IF ~st.tableExists THEN [st EXCEPT !.raised = TRUE]
    ELSE [st EXCEPT !.records = Cleared(st.records)]

\* vs.setup() within a run; the ivfflat index can only fail to be created
\* while it does not exist
SetupStep(st, ivfFails) ==
    IF st.raised THEN st
    ELSE IF SetupRaises(ivfFails /\ ~st.ivfIndex) THEN [st EXCEPT !.raised = TRUE]
    ELSE [st EXCEPT !.tableExists = TRUE, !.ivfIndex = TRUE]

\* vs.upsert_chunks(rows) within a run
UpsertStep(st, rows) ==
    IF st.raised \/ rows = <<>> THEN st
    ELSE IF ~st.tableExists THEN [st EXCEPT !.raised = TRUE]
    ELSE [st EXCEPT !.records = Inserted(st.records, rows, st.nextId),
                    !.nextId = st.nextId + Len(rows)]

\* rows = flatten_schema_json(schema); vs.setup(); n = vs.upsert_chunks(rows)
IngestStep(st, schema, ivfFails) ==
    IF st.raised THEN st
    ELSE LET fl == FlattenSchemaJson(schema)
         IN  IF fl.raised THEN [st EXCEPT !.raised = TRUE]
             ELSE UpsertStep(SetupStep(st, ivfFails), fl.rows)

\* sidebar_ingest_ui: the clear button, the uploader's file (ingested whenever
\* the widget holds one), the fetch button
SidebarIngestUi(st, w, ivfFails, live, fetchFails) ==
    LET cleared  == IF w.trigger = "clear" THEN ClearStep(st) ELSE st
        uploaded == IF w.uploaded # <<>>
                    THEN IngestStep(cleared, w.uploaded[1], ivfFails)
                    ELSE cleared
    IN  IF w.trigger # "fetch" \/ uploaded.raised THEN uploaded
        ELSE IF fetchFails THEN [uploaded EXCEPT !.raised = TRUE]
        ELSE IngestStep(uploaded, live, ivfFails)

\* the files a user uploads: parsed JSON documents holding a schema
UiFiles ==
    { <<>>,
      << [table_name |-> "users", columns |-> <<>>] >>,
      << [table_name |-> "users", columns |-> <<ColName>>] >> }

\* what fetch_schema_from_postgres returns: every table with its columns
LiveSchemas ==
    { <<>>,
      << [table_schema |-> "public", table_name |-> "users", columns |-> <<ColName>>] >> }

\* the values the slider takes: its minimum, its default, its maximum
SliderValues == {3, top_k, 15}

\* what generate_sql does in a run of the script
UiGenOutcomes ==
    { Raised, Returned(KwSelect \o <<" ", "1">>), Returned(<<"D", "R", "O", "P", " ", "t">>) }

\* one run of main() with the widgets w as the interaction left them: sidebar_ingest_ui, then main_query_ui
ScriptRun(w, ivfFails, live, fetchFails, gen, dbFails) ==
    LET run  == w.trigger = "generate"
        side == SidebarIngestUi(StoreNow, w, ivfFails, live, fetchFails)
        st   == IF run /\ w.question # <<>> THEN SetupStep(side, ivfFails) ELSE side
    IN  /\ ivfFails => ~ivfIndex
        /\ st.nextId <= MaxId + 1
        /\ tableExists' = st.tableExists
        /\ ivfIndex' = st.ivfIndex
        /\ records' = st.records
        /\ nextId' = st.nextId
        /\ lastOp' = [op |-> "script", raised |-> st.raised]
        /\ IF st.raised THEN ui' = [BlankPage EXCEPT !.raised = TRUE]
           ELSE IF ~(run /\ w.question # <<>>) THEN ui' = BlankPage
           ELSE \E out \in SearchOutcomes(st.tableExists, st.records, w.question, w.top_k) :
                  ui' = IF out.raised \/ gen.raised THEN [BlankPage EXCEPT !.raised = TRUE]
                        ELSE [ generated  |-> TRUE,
                               sql        |-> gen.sql,
                               shown      |-> TRUE,
                               code       |-> gen.sql,
                               dispatched |-> GateOpen(gen.sql),
                               warning    |-> ~GateOpen(gen.sql),
                               error      |-> GateOpen(gen.sql) /\ dbFails,
                               raised     |-> FALSE ]
        /\ UNCHANGED <<pc, postVars, flatVars, llmVars>>

\* the user chooses a file in the uploader
Upload(file, ivfFails) ==
    /\ widgets' = [widgets EXCEPT !.uploaded = <<file>>, !.trigger = "upload"]
    /\ ScriptRun(widgets', ivfFails, <<>>, FALSE, Raised, FALSE)

\* the user removes the file from the uploader
RemoveFile ==
    /\ widgets.uploaded # <<>>
    /\ widgets' = [widgets EXCEPT !.uploaded = <<>>, !.trigger = "remove"]
    /\ ScriptRun(widgets', FALSE, <<>>, FALSE, Raised, FALSE)

\* the user enters a question
EnterQuestion(q, ivfFails) ==
    /\ q # widgets.question
    /\ widgets' = [widgets EXCEPT !.question = q, !.trigger = "question"]
    /\ ScriptRun(widgets', ivfFails, <<>>, FALSE, Raised, FALSE)

\* the user moves the context-size slider
MoveSlider(k, ivfFails) ==
    /\ k # widgets.top_k
    /\ widgets' = [widgets EXCEPT !.top_k = k, !.trigger = "slider"]
    /\ ScriptRun(widgets', ivfFails, <<>>, FALSE, Raised, FALSE)

\* the user presses Generate & Run
PressGenerate(ivfFails, gen, dbFails) ==
    /\ widgets' = [widgets EXCEPT !.trigger = "generate"]
    /\ ScriptRun(widgets', ivfFails, <<>>, FALSE, gen, dbFails)

\* the user presses Clear Indexed Schema
PressClear(ivfFails) ==
    /\ widgets' = [widgets EXCEPT !.trigger = "clear"]
    /\ ScriptRun(widgets', ivfFails, <<>>, FALSE, Raised, FALSE)

\* the user presses Fetch current DB schema
PressFetch(live, fetchFails, ivfFails) ==
    /\ widgets' = [widgets EXCEPT !.trigger = "fetch"]
    /\ ScriptRun(widgets', ivfFails, live, fetchFails, Raised, FALSE)

UiInit ==
    /\ pc = "idle"
    /\ StoreInit
    /\ UiIdle
    /\ WidgetsIdle
    /\ PostIdle
    /\ FlatIdle
    /\ LlmIdle

UiNext ==
    \/ \E file \in UiFiles, f \in BOOLEAN : Upload(file, f)
    \/ RemoveFile
    \/ \E q \in Queries \cup {<<>>}, f \in BOOLEAN : EnterQuestion(q, f)
    \/ \E k \in SliderValues, f \in BOOLEAN : MoveSlider(k, f)
    \/ \E f \in BOOLEAN, gen \in UiGenOutcomes, d \in BOOLEAN : PressGenerate(f, gen, d)
    \/ \E f \in BOOLEAN : PressClear(f)
    \/ \E live \in LiveSchemas, ff \in BOOLEAN, f \in BOOLEAN : PressFetch(live, ff, f)

SpecUI == UiInit /\ [][UiNext]_vars

-----------------------------------------------------------------------------
(* Claims about the script runs, under SpecUI.                             *)

\* the interactions by which the user asks for an ingest
IngestAction(trigger) == trigger \in {"upload", "fetch"}

\* C11: a run of the script triggered by an interaction that is not an ingest
\* action (entering a question, moving the slider, pressing Generate & Run,
\* pressing Clear Indexed Schema) appends no record: every record held after
\* the run was held before it, so an uploaded schema is ingested once and a
\* cleared store stays empty until the next ingest action.
C11_OnlyIngestActionsAppend ==
    [][ ~IngestAction(widgets'.trigger) =>
            \A i \in 1..Len(records') : records'[i].id < nextId ]_vars

-----------------------------------------------------------------------------
(* Inputs of _postprocess_sql.                                             *)

PostAlphabet == {BT, " ", "s", "S", "q", "l"}

BodyAlphabet == {BT, "\n", "s", "q", "l", "x"}

\* language tags of a fenced block; <<>> is the untagged block
Tags ==
    { <<>>, SqlTag, <<"S", "Q", "L">>,
      <<"p", "o", "s", "t", "g", "r", "e", "s", "q", "l">> }

\* <fence><tag><body><fence>; a tag is followed by the line break that ends it
FencedText(tag, body) ==
    Fence \o tag \o (IF tag = <<>> THEN <<>> ELSE <<"\n">>) \o body \o Fence

FreeInputs ==
    { [text |-> t, fenced |-> FALSE, tag |-> <<>>, body |-> <<>>] :
        t \in TextsUpTo(PostAlphabet, MaxTextLen) }

\* bodies of a fenced block: some text is left after trimming, no fence inside,
\* and no backtick first (the opening fence is exactly three backticks)
Bodies ==
    { b \in TextsUpTo(BodyAlphabet, MaxBodyLen) :
        Strip(b) # <<>> /\ ~Contains(b, Fence) /\ Head(b) # BT }

FencedInputs ==
    { [text |-> FencedText(tg, b), fenced |-> TRUE, tag |-> tg, body |-> b] :
        tg \in Tags, b \in Bodies }

PostInit ==
    /\ pc = "start"
    /\ ppIn \in FreeInputs \cup FencedInputs
    /\ ppOut = <<>>
    /\ FlatIdle
    /\ LlmIdle
    /\ StoreInit
    /\ UiIdle
    /\ WidgetsIdle

\* one call of _postprocess_sql
Postprocess ==
    /\ pc = "start"
    /\ ppOut' = PostprocessSql(ppIn.text)
    /\ pc' = "done"
    /\ UNCHANGED <<ppIn, flatVars, llmVars, storeVars, ui, widgets>>

SpecPost == PostInit /\ [][Postprocess]_vars

-----------------------------------------------------------------------------
(* Claims about _postprocess_sql, under SpecPost.                          *)

\* a text with no fence in it and no whitespace around it
CleanText(t) == ~Contains(t, Fence) /\ Strip(t) = t

\* C8: post-processing is idempotent: applying _postprocess_sql to its own
\* result returns that result, and a text that is already clean (no fence, no
\* surrounding whitespace) is returned unchanged.
C8_PostprocessIdempotent ==
    pc = "done" =>
        /\ PostprocessSql(ppOut) = ppOut
        /\ CleanText(ppIn.text) => ppOut = ppIn.text

\* C8 witness: a fenced, tagged text was post-processed to a different,
\* non-empty text.
C8_Witness ==
    /\ pc = "done"
    /\ StartsWith(ppIn.text, Fence \o SqlTag)
    /\ ppOut # <<>>
    /\ ppOut # ppIn.text

\* C9: for every text <fence><optional language tag><body><fence>,
\* _postprocess_sql returns exactly the whitespace-trimmed body, and the result
\* holds no triple backtick.
C9_FencedTextGivesBody ==
    (pc = "done" /\ ppIn.fenced) =>
        /\ ppOut = Strip(ppIn.body)
        /\ ~Contains(ppOut, Fence)

====
